---------------------------- MODULE Spec2Model ----------------------------
(***************************************************************************)
(* Model of SisHotel (src/app.py): a SQLite store of room-inspection       *)
(* reports, their checklist items, an item catalog and general-maintenance *)
(* tickets, brought to schema version 4 by init_db on every script run.    *)
(*                                                                         *)
(* Conventions.  A nullable column holds <<>> (SQL NULL) or <<v>>.  A text *)
(* value is a sequence of one-character strings; the two non-ASCII letters *)
(* of the alphabet are written "A~" (U+00C3) and "a~" (U+00E3).  Row ids   *)
(* are AUTOINCREMENT and no row is ever deleted, so a table is a sequence  *)
(* and a row's id is its index.                                            *)
(***************************************************************************)
EXTENDS Integers, Sequences, FiniteSets, TLC

VARIABLES
    tables,               \* names of the tables that exist in the store
    columns,              \* <<table, column>> pairs that exist
    indexes,              \* names of the indexes that exist
    version,              \* schema_meta.version; 0 when there is no row
    reports,              \* rows of reports
    report_items,         \* rows of report_items
    maintenance_items,    \* rows of maintenance_items
    general_maintenance,  \* rows of general_maintenance
    backups,              \* number of files under backups/
    now,                  \* the wall clock read by datetime.now()
    started,              \* init_db() has completed at least once (line 567)
    calls,                \* per session: the data-access call in progress
    origin,               \* history: the schema version the store was found at
                          \* (0: no store file; 1 also when schema_meta is absent)
    saving,               \* per session: st.session_state["saving"]
    uncommitted           \* per session: the rows written in its open transaction

vars == <<tables, columns, indexes, version, reports, report_items,
          maintenance_items, general_maintenance, backups, now, started, calls,
          origin, saving, uncommitted>>

-----------------------------------------------------------------------------
(* Bounds of the model *)

MaxLegacy == 2
MaxHistory == 1
MaxReports == 1
MaxTickets == 2
MaxAdded == 2
MaxBackups == 2
MaxTime == 1

(* Program constants *)

AptsPerFloor == 18
TargetVersion == 4

-----------------------------------------------------------------------------
(* Values *)

NULL == <<>>
Some(v) == <<v>>
IsNull(x) == x = <<>>
Val(x) == x[1]

STATUSES == <<"OK", "Problema", "N/A">>
GM_STATUSES == <<"Aberto", "Em andamento", "Resolvido">>

Range(s) == {s[i] : i \in DOMAIN s}

Max(a, b) == IF a >= b THEN a ELSE b

-----------------------------------------------------------------------------
(* Text *)

UpperAscii == <<"A","B","C","D","E","F","G","H","I","J","K","L","M",
                "N","O","P","Q","R","S","T","U","V","W","X","Y","Z">>
LowerAscii == <<"a","b","c","d","e","f","g","h","i","j","k","l","m",
                "n","o","p","q","r","s","t","u","v","w","x","y","z">>

Whitespace == {" ", "\t"}

\* str.strip(): drop leading and trailing whitespace
RECURSIVE LStrip(_)
LStrip(s) == IF s # <<>> /\ Head(s) \in Whitespace THEN LStrip(Tail(s)) ELSE s

RECURSIVE RStrip(_)
RStrip(s) ==
    IF s # <<>> /\ s[Len(s)] \in Whitespace
    THEN RStrip(SubSeq(s, 1, Len(s) - 1))
    ELSE s

Strip(s) == RStrip(LStrip(s))

\* `x.strip() or None`
StripOrNone(s) == IF Strip(s) = <<>> THEN NULL ELSE Some(Strip(s))

\* " ".join(name.strip().split()): every run of whitespace inside becomes one
\* space, the ends are trimmed
RECURSIVE Collapse(_)
Collapse(s) ==
    IF s = <<>> THEN <<>>
    ELSE IF Head(s) \in Whitespace
         THEN IF LStrip(s) = <<>> THEN <<>> ELSE <<" ">> \o Collapse(LStrip(s))
         ELSE <<Head(s)>> \o Collapse(Tail(s))

normalize_item_name(name) == Collapse(Strip(name))

\* SQLite's NOCASE collation folds the 26 ASCII upper-case letters and nothing
\* else
DigitChars == <<"0","1","2","3","4","5","6","7","8","9">>

\* the alphabet, in code-point order
CharOrder == <<"\t", " ", "(", ")", "-">> \o DigitChars \o UpperAscii \o LowerAscii
             \o <<"A~", "a~">>

Alphabet == {CharOrder[i] : i \in DOMAIN CharOrder}

FoldAscii == [c \in Alphabet |->
    IF \E i \in 1..26 : UpperAscii[i] = c
    THEN LowerAscii[CHOOSE i \in 1..26 : UpperAscii[i] = c]
    ELSE c]

NoCase(s) == [i \in DOMAIN s |-> FoldAscii[s[i]]]

\* Decimal digits of a non-negative integer

RECURSIVE Decimal(_)
Decimal(n) ==
    IF n < 10 THEN <<DigitChars[n + 1]>>
    ELSE Decimal(n \div 10) \o <<DigitChars[(n % 10) + 1]>>

\* The conversion %02d / :02d : sign, then at least two characters, zero padded
Fmt02d(n) ==
    LET body == IF n < 0 THEN <<"-">> \o Decimal(-n) ELSE Decimal(n)
    IN  IF Len(body) < 2 THEN <<"0">> \o body ELSE body

room_code(floor, apt) == Fmt02d(floor) \o Fmt02d(apt)

\* SQLite integer / and % truncate toward zero; NULL operands give NULL
TruncDiv(a, b) == IF a >= 0 THEN a \div b ELSE -((-a) \div b)
TruncMod(a, b) == a - b * TruncDiv(a, b)

\* Mutant: printf('%d%d', floor, apt), no padding
SqlPrintfCode_NoPad(floor, apt) ==
    Decimal(IF IsNull(floor) THEN 0 ELSE Val(floor))
    \o Decimal(IF IsNull(apt) THEN 0 ELSE Val(apt))

\* SQLite printf('%02d%02d', floor, apt): a NULL argument is formatted as 0
SqlPrintfCode(floor, apt) ==
    room_code(IF IsNull(floor) THEN 0 ELSE Val(floor),
              IF IsNull(apt) THEN 0 ELSE Val(apt))

-----------------------------------------------------------------------------
(* The store as one value, so that the steps of init_db compose *)

Db == [tables |-> tables, columns |-> columns, indexes |-> indexes,
       version |-> version, reports |-> reports, report_items |-> report_items,
       maintenance_items |-> maintenance_items,
       general_maintenance |-> general_maintenance]

ReportsCols == {"id", "report_date", "technician", "created_at",
                "floor", "apt", "room_code", "room"}
ReportItemsCols == {"id", "report_id", "item_id", "item", "status", "note"}
GeneralMaintenanceCols == {"id", "maint_date", "place", "description", "status",
                           "technician", "note", "created_at",
                           "resolved_at", "resolved_by", "resolution_note"}
MaintenanceItemsCols == {"id", "name", "active", "created_at"}

\* CREATE TABLE IF NOT EXISTS t (cols)
CreateTableIfNotExists(db, t, cols) ==
    IF t \in db.tables THEN db
    ELSE [db EXCEPT !.tables = @ \cup {t},
                    !.columns = @ \cup {<<t, c>> : c \in cols}]

\* CREATE INDEX IF NOT EXISTS i
CreateIndexIfNotExists(db, i) == [db EXCEPT !.indexes = @ \cup {i}]

table_has_column(db, t, c) == <<t, c>> \in db.columns

\* Mutant: the column is added by rebuilding the table, which empties it
AddColumn_Rebuild(db, t, c) ==
    LET withCol == [db EXCEPT !.columns = @ \cup {<<t, c>>}]
    IN  CASE t = "reports" -> [withCol EXCEPT !.reports = <<>>]
          [] t = "report_items" -> [withCol EXCEPT !.report_items = <<>>]

\* ALTER TABLE t ADD COLUMN c: the column is NULL in every existing row
AddColumn(db, t, c) ==
    LET withCol == [db EXCEPT !.columns = @ \cup {<<t, c>>}]
        nulled(rows) == [i \in DOMAIN rows |-> [rows[i] EXCEPT ![c] = NULL]]
    IN  CASE t = "reports" -> [withCol EXCEPT !.reports = nulled(@)]
          [] t = "report_items" -> [withCol EXCEPT !.report_items = nulled(@)]

AddColumnIfMissing(db, t, c) ==
    IF ~table_has_column(db, t, c) THEN AddColumn(db, t, c) ELSE db

ensure_schema_meta(db) ==
    LET d1 == CreateTableIfNotExists(db, "schema_meta", {"id", "version"})
    IN  IF d1.version = 0 THEN [d1 EXCEPT !.version = 1] ELSE d1

get_schema_version(db) == db.version

set_schema_version(db, v) == [db EXCEPT !.version = v]

\* Mutant: the conversion without the "- 1"
BackfillFloorApt_OffByOne(db) ==
    LET upd(r) ==
            IF IsNull(r.floor) \/ IsNull(r.apt)
            THEN [r EXCEPT
                    !.floor = IF IsNull(r.room) THEN NULL
                              ELSE Some(TruncDiv(Val(r.room), AptsPerFloor) + 1),
                    !.apt = IF IsNull(r.room) THEN NULL
                            ELSE Some(TruncMod(Val(r.room), AptsPerFloor) + 1)]
            ELSE r
    IN  [db EXCEPT !.reports = [i \in DOMAIN @ |-> upd(@[i])]]

\* UPDATE reports SET floor = ((room-1)/18)+1, apt = ((room-1)%18)+1
\*  WHERE floor IS NULL OR apt IS NULL
BackfillFloorApt(db) ==
    LET upd(r) ==
            IF IsNull(r.floor) \/ IsNull(r.apt)
            THEN [r EXCEPT
                    !.floor = IF IsNull(r.room) THEN NULL
                              ELSE Some(TruncDiv(Val(r.room) - 1, AptsPerFloor) + 1),
                    !.apt = IF IsNull(r.room) THEN NULL
                            ELSE Some(TruncMod(Val(r.room) - 1, AptsPerFloor) + 1)]
            ELSE r
    IN  [db EXCEPT !.reports = [i \in DOMAIN @ |-> upd(@[i])]]

\* UPDATE reports SET room_code = printf('%02d%02d', floor, apt)
\*  WHERE room_code IS NULL OR room_code = ''
BackfillRoomCode(db) ==
    LET upd(r) ==
            IF IsNull(r.room_code) \/ r.room_code = Some(<<>>)
            THEN [r EXCEPT !.room_code = Some(SqlPrintfCode(r.floor, r.apt))]
            ELSE r
    IN  [db EXCEPT !.reports = [i \in DOMAIN @ |-> upd(@[i])]]

\* Mutant: the conversion runs only in the run that added the floor column
MigrateV1V2_BackfillNewOnly(db) ==
    LET d1 == AddColumnIfMissing(db, "reports", "floor")
        d2 == AddColumnIfMissing(d1, "reports", "apt")
        d3 == AddColumnIfMissing(d2, "reports", "room_code")
        d4 == IF table_has_column(d3, "reports", "room")
                 /\ ~table_has_column(db, "reports", "floor")
              THEN BackfillRoomCode(BackfillFloorApt(d3))
              ELSE d3
        d5 == CreateIndexIfNotExists(d4, "idx_reports_date")
        d6 == CreateIndexIfNotExists(d5, "idx_reports_roomcode")
        d7 == CreateIndexIfNotExists(d6, "idx_reports_floor_apt")
    IN  set_schema_version(d7, 2)

MigrateV1V2(db) ==
    LET d1 == AddColumnIfMissing(db, "reports", "floor")
        d2 == AddColumnIfMissing(d1, "reports", "apt")
        d3 == AddColumnIfMissing(d2, "reports", "room_code")
        d4 == IF table_has_column(d3, "reports", "room")
              THEN BackfillRoomCode(BackfillFloorApt(d3))
              ELSE d3
        d5 == CreateIndexIfNotExists(d4, "idx_reports_date")
        d6 == CreateIndexIfNotExists(d5, "idx_reports_roomcode")
        d7 == CreateIndexIfNotExists(d6, "idx_reports_floor_apt")
    IN  set_schema_version(d7, 2)

MigrateV2V3(db) ==
    LET d1 == CreateTableIfNotExists(db, "maintenance_items", MaintenanceItemsCols)
        d2 == AddColumnIfMissing(d1, "report_items", "item_id")
        d3 == CreateIndexIfNotExists(d2, "idx_items_active")
        d4 == CreateIndexIfNotExists(d3, "idx_report_items_item_id")
    IN  set_schema_version(d4, 3)

MigrateV3V4(db) ==
    LET d1 == AddColumnIfMissing(db, "report_items", "resolved_at")
        d2 == AddColumnIfMissing(d1, "report_items", "resolved_by")
        d3 == AddColumnIfMissing(d2, "report_items", "resolution_note")
        d4 == CreateIndexIfNotExists(d3, "idx_report_items_resolved_at")
    IN  set_schema_version(d4, 4)

\* Mutant: the three steps chained as if / elif / elif, one step per run
migrate_if_needed_OneStep(db) ==
    LET d0 == ensure_schema_meta(db)
        v0 == get_schema_version(d0)
    IN  IF v0 < 2 THEN MigrateV1V2(d0)
        ELSE IF v0 < 3 THEN MigrateV2V3(d0)
        ELSE IF v0 < 4 THEN MigrateV3V4(d0)
        ELSE d0

\* The local v is set to 2 by the first step and left alone by the second, so
\* the third step's test reads the value the second step's test read.
migrate_if_needed(db) ==
    LET d0 == ensure_schema_meta(db)
        v0 == get_schema_version(d0)
        d1 == IF v0 < 2 THEN MigrateV1V2(d0) ELSE d0
        v1 == IF v0 < 2 THEN 2 ELSE v0
        d2 == IF v1 < 3 THEN MigrateV2V3(d1) ELSE d1
        d3 == IF v1 < 4 THEN MigrateV3V4(d2) ELSE d2
    IN  d3

Txt_Fechadura == <<"F","e","c","h","a","d","u","r","a"," ","P","o","r","t","a",
                   " ","(","P","i","l","h","a","s",")">>
Txt_Cofre == <<"C","o","f","r","e">>
Txt_Frigobar == <<"F","r","i","g","o","b","a","r">>
Txt_Toalheiro == <<"T","o","a","l","h","e","i","r","o">>
Txt_SuportePapel == <<"S","u","p","o","r","t","e"," ","P","a","p","e","l">>
Txt_Ducha == <<"D","u","c","h","a">>
Txt_Luzes == <<"L","u","z","e","s">>
Txt_Televisao == <<"T","e","l","e","v","i","s","a","o">>
Txt_Telefone == <<"T","e","l","e","f","o","n","e">>
Txt_Abajur == <<"A","b","a","j","u","r">>
Txt_Tomadas == <<"T","o","m","a","d","a","s">>
Txt_Controles == <<"C","o","n","t","r","o","l","e","s">>
Txt_Cortina == <<"C","o","r","t","i","n","a">>

defaults == <<Txt_Fechadura, Txt_Cofre, Txt_Frigobar, Txt_Toalheiro,
              Txt_SuportePapel, Txt_Ducha, Txt_Luzes, Txt_Televisao,
              Txt_Telefone, Txt_Abajur, Txt_Tomadas, Txt_Controles, Txt_Cortina>>

MaintenanceItem(name, active, at) ==
    [name |-> name, active |-> active, created_at |-> at]

\* Mutant: the seed without its COUNT(*) test
seed_default_items_Reseed(db, t) ==
    [db EXCEPT !.maintenance_items =
        [i \in DOMAIN defaults |-> MaintenanceItem(defaults[i], 1, t)]]

\* Mutant: a seed that also switches the default items of a filled catalog
\* back on
seed_default_items_Reactivate(db, t) ==
    IF Len(db.maintenance_items) = 0
    THEN [db EXCEPT !.maintenance_items =
            [i \in DOMAIN defaults |-> MaintenanceItem(defaults[i], 1, t)]]
    ELSE [db EXCEPT !.maintenance_items =
            [i \in DOMAIN db.maintenance_items |->
                IF i \in DOMAIN defaults
                THEN [db.maintenance_items[i] EXCEPT !.active = 1]
                ELSE db.maintenance_items[i]]]

seed_default_items_if_empty(db, t) ==
    IF Len(db.maintenance_items) = 0
    THEN [db EXCEPT !.maintenance_items =
            [i \in DOMAIN defaults |-> MaintenanceItem(defaults[i], 1, t)]]
    ELSE db

\* init_db without its backup: the tables of the current shape, the migration
\* ladder, then the seed
InitDbStore(db, t) ==
    LET d1 == CreateTableIfNotExists(db, "reports", ReportsCols)
        d2 == CreateTableIfNotExists(d1, "report_items", ReportItemsCols)
        d3 == CreateTableIfNotExists(d2, "general_maintenance", GeneralMaintenanceCols)
        d4 == CreateIndexIfNotExists(d3, "idx_gm_date")
        d5 == CreateIndexIfNotExists(d4, "idx_gm_status")
        d6 == migrate_if_needed(d5)
    IN  seed_default_items_if_empty(d6, t)

\* backup_db: one more file under backups/ when the store file exists
backup_db(n) == IF tables # {} THEN n + 1 ELSE n

SetDb(db) ==
    /\ tables' = db.tables
    /\ columns' = db.columns
    /\ indexes' = db.indexes
    /\ version' = db.version
    /\ reports' = db.reports
    /\ report_items' = db.report_items
    /\ maintenance_items' = db.maintenance_items
    /\ general_maintenance' = db.general_maintenance

\* One run of init_db() (line 567: every script run starts with it)
init_db ==
    /\ backup_db(backups) <= MaxBackups
    /\ backups' = backup_db(backups)
    /\ SetDb(InitDbStore(Db, now))
    /\ started' = TRUE
    /\ UNCHANGED <<saving, uncommitted, origin, now, calls>>

\* What a run of init_db that ends after k of its committed effects leaves in
\* the store. The six statements before the INSERT of ensure_schema_meta are
\* DDL outside a transaction and are committed one by one; the INSERT opens
\* the transaction that conn.commit() (line 408) ends, so the migration is
\* committed whole (k = 7) or not at all; the seed is a later transaction.
InitDbPrefix(db, k) ==
    LET d1 == IF k >= 1 THEN CreateTableIfNotExists(db, "reports", ReportsCols) ELSE db
        d2 == IF k >= 2 THEN CreateTableIfNotExists(d1, "report_items", ReportItemsCols) ELSE d1
        d3 == IF k >= 3 THEN CreateTableIfNotExists(d2, "general_maintenance", GeneralMaintenanceCols) ELSE d2
        d4 == IF k >= 4 THEN CreateIndexIfNotExists(d3, "idx_gm_date") ELSE d3
        d5 == IF k >= 5 THEN CreateIndexIfNotExists(d4, "idx_gm_status") ELSE d4
        d6 == IF k >= 6 THEN CreateTableIfNotExists(d5, "schema_meta", {"id", "version"}) ELSE d5
    IN  IF k >= 7 THEN migrate_if_needed(d6) ELSE d6

\* A run of init_db() that is aborted (exception or end of the process)
\* after its backup and k committed effects; the script run ends there
InitDbAborted(k) ==
    /\ backup_db(backups) <= MaxBackups
    /\ backups' = backup_db(backups)
    /\ SetDb(InitDbPrefix(Db, k))
    /\ calls' = [calls EXCEPT ![1] = [op |-> "init_db", pc |-> "returned", id |-> k,
                                      at |-> now, text |-> <<>>, note |-> <<>>,
                                      outcome |-> "aborted"]]
    /\ UNCHANGED <<saving, uncommitted, origin, now, started>>

-----------------------------------------------------------------------------
(* The stores a run of init_db can find: no file yet, or the store as one of *)
(* the schema versions of the docstring of migrate_if_needed left it         *)

FloorCount == 12

Report(d, tech, at, floor, apt, code, room) ==
    [report_date |-> d, technician |-> tech, created_at |-> at,
     floor |-> floor, apt |-> apt, room_code |-> code, room |-> room]

ReportItem(rid, iid, item, status, note, rat, rby, rnote) ==
    [report_id |-> rid, item_id |-> iid, item |-> item, status |-> status,
     note |-> note, resolved_at |-> rat, resolved_by |-> rby,
     resolution_note |-> rnote]

Txt_Ana == <<"A","n","a">>
Txt_Carlos == <<"C","a","r","l","o","s">>
Txt_Note == <<"f","a","z"," ","r","u","i","d","o">>

\* legacy room numbers at the edges of floors: 1..216
LegacyRooms == {1, AptsPerFloor, AptsPerFloor + 1, FloorCount * AptsPerFloor}

\* what a historical row is drawn from: its legacy room, the status of its one
\* checklist line, and whether that line was resolved (version 4 only)
LegacyRowSpecs(rooms, statuses) ==
    {x \in [room : rooms, status : statuses, resolved : BOOLEAN] :
        x.resolved => x.status = "Problema"}

V1Columns ==
    {<<"reports", c>> : c \in {"id", "report_date", "technician", "created_at", "room"}}
    \cup {<<"report_items", c>> : c \in {"id", "report_id", "item", "status", "note"}}
V2Columns ==
    V1Columns \cup {<<"reports", c>> : c \in {"floor", "apt", "room_code"}}
V3Columns ==
    V2Columns \cup {<<"report_items", "item_id">>}
    \cup {<<"maintenance_items", c>> : c \in MaintenanceItemsCols}
V4Columns ==
    V3Columns
    \cup {<<"report_items", c>> : c \in {"resolved_at", "resolved_by", "resolution_note"}}
    \cup {<<"general_maintenance", c>> : c \in GeneralMaintenanceCols}

V2Indexes == {"idx_reports_date", "idx_reports_roomcode", "idx_reports_floor_apt"}
V3Indexes == V2Indexes \cup {"idx_items_active", "idx_report_items_item_id"}
V4Indexes == V3Indexes \cup {"idx_report_items_resolved_at", "idx_gm_date", "idx_gm_status"}

MetaColumns == {<<"schema_meta", "id">>, <<"schema_meta", "version">>}

\* the store of schema version v (1..4) holding the rows `rows` describes;
\* meta says whether schema_meta has been created yet (it always has from
\* version 2 on, which only migrate_if_needed records)
HistoricalStore(v, meta, rows, catalog) ==
    LET report(x) ==
            Report(1, Txt_Ana, 0,
                   IF v >= 2 THEN Some(((x.room - 1) \div AptsPerFloor) + 1) ELSE NULL,
                   IF v >= 2 THEN Some(((x.room - 1) % AptsPerFloor) + 1) ELSE NULL,
                   IF v >= 2
                   THEN Some(room_code(((x.room - 1) \div AptsPerFloor) + 1,
                                       ((x.room - 1) % AptsPerFloor) + 1))
                   ELSE NULL,
                   Some(x.room))
        item(i, x) ==
            ReportItem(i, NULL, Txt_Frigobar, x.status, Some(Txt_Note),
                       IF v >= 4 /\ x.resolved THEN Some(0) ELSE NULL,
                       IF v >= 4 /\ x.resolved THEN Some(Txt_Carlos) ELSE NULL,
                       NULL)
    IN  [tables |-> {"reports", "report_items"}
            \cup (IF meta THEN {"schema_meta"} ELSE {})
            \cup (IF v >= 3 THEN {"maintenance_items"} ELSE {})
            \cup (IF v >= 4 THEN {"general_maintenance"} ELSE {}),
         columns |-> (CASE v = 1 -> V1Columns [] v = 2 -> V2Columns
                        [] v = 3 -> V3Columns [] v = 4 -> V4Columns)
            \cup (IF meta THEN MetaColumns ELSE {}),
         indexes |-> (CASE v = 1 -> {} [] v = 2 -> V2Indexes
                        [] v = 3 -> V3Indexes [] v = 4 -> V4Indexes),
         version |-> IF meta THEN v ELSE 0,
         reports |-> [i \in DOMAIN rows |-> report(rows[i])],
         report_items |-> [i \in DOMAIN rows |-> item(i, rows[i])],
         maintenance_items |-> IF v >= 3 THEN catalog ELSE <<>>,
         general_maintenance |-> <<>>]

EmptyStore ==
    [tables |-> {}, columns |-> {}, indexes |-> {}, version |-> 0,
     reports |-> <<>>, report_items |-> <<>>, maintenance_items |-> <<>>,
     general_maintenance |-> <<>>]

SeededCatalog == [i \in DOMAIN defaults |-> MaintenanceItem(defaults[i], 1, 0)]

\* catalogs a version 3 or 4 store was left with: the seed, or the seed with
\* its first entry switched off
HistoricalCatalogs ==
    {SeededCatalog, [SeededCatalog EXCEPT ![1].active = 0]}

SeqsUpTo(S, n) == UNION {[1..k -> S] : k \in 0..n}

HistoricalStores(versions, rowSpecs, maxRows) ==
    UNION {{HistoricalStore(v, meta, rows, cat) :
                meta \in {TRUE, v > 1},
                rows \in SeqsUpTo(rowSpecs, maxRows),
                cat \in HistoricalCatalogs} : v \in versions}

Sessions == {1, 2}

\* a connection with no open transaction
NoRows == [reports |-> <<>>, report_items |-> <<>>, items_payload |-> <<>>]

Idle == [op |-> "idle", pc |-> "returned", id |-> 0, at |-> 0,
         text |-> <<>>, note |-> <<>>, outcome |-> "none"]

InitFrom(stores) ==
    /\ \E db \in stores :
          /\ tables = db.tables
          /\ columns = db.columns
          /\ indexes = db.indexes
          /\ version = db.version
          /\ reports = db.reports
          /\ report_items = db.report_items
          /\ maintenance_items = db.maintenance_items
          /\ general_maintenance = db.general_maintenance
          /\ origin = IF db.tables = {} THEN 0 ELSE Max(1, db.version)
    /\ backups = 0
    /\ now = 0
    /\ started = FALSE
    /\ calls = [s \in Sessions |-> Idle]
    /\ saving = [s \in Sessions |-> FALSE]
    /\ uncommitted = [s \in Sessions |-> NoRows]

Tick ==
    /\ now < MaxTime
    /\ now' = now + 1
    /\ UNCHANGED <<saving, uncommitted, origin, tables, columns, indexes, version, reports, report_items,
                   maintenance_items, general_maintenance, backups, started, calls>>

InitMigrate ==
    InitFrom({EmptyStore} \cup HistoricalStores(1..4, LegacyRowSpecs(LegacyRooms, Range(STATUSES)), MaxLegacy))

NextMigrate == init_db \/ Tick

SpecMigrate == InitMigrate /\ [][NextMigrate]_vars

\* Startups that are aborted part-way, then run again
InitAbort ==
    InitFrom({EmptyStore} \cup HistoricalStores(1..4, LegacyRowSpecs({AptsPerFloor + 1}, {"OK", "Problema"}), MaxHistory))

NextAbort ==
    \/ init_db
    \/ \E k \in 0..7 : InitDbAborted(k)

SpecAbort == InitAbort /\ [][NextAbort]_vars

-----------------------------------------------------------------------------
(* Item catalog *)

Ord == [c \in Alphabet |-> CHOOSE i \in DOMAIN CharOrder : CharOrder[i] = c]

RECURSIVE LexLess(_, _)
LexLess(a, b) ==
    IF b = <<>> THEN FALSE
    ELSE IF a = <<>> THEN TRUE
    ELSE IF Head(a) = Head(b) THEN LexLess(Tail(a), Tail(b))
    ELSE Ord[Head(a)] < Ord[Head(b)]

\* list_items: the ids (all, or the active ones) in ORDER BY name ASC; the
\* column is declared COLLATE NOCASE and UNIQUE, so the order is strict
RECURSIVE InsertByName(_, _, _)
InsertByName(items, sorted, i) ==
    IF sorted = <<>> \/ LexLess(NoCase(items[i].name), NoCase(items[Head(sorted)].name))
    THEN <<i>> \o sorted
    ELSE <<Head(sorted)>> \o InsertByName(items, Tail(sorted), i)

RECURSIVE SortByName(_, _)
SortByName(items, n) ==
    IF n = 0 THEN <<>> ELSE InsertByName(items, SortByName(items, n - 1), n)

list_items(items, active_only) ==
    SelectSeq(SortByName(items, Len(items)),
              LAMBDA i : ~active_only \/ items[i].active = 1)

\* SELECT 1 FROM maintenance_items WHERE name = ? COLLATE NOCASE
item_exists(items, name) ==
    \E i \in DOMAIN items : NoCase(items[i].name) = NoCase(name)

\* INSERT INTO maintenance_items: the UNIQUE COLLATE NOCASE constraint on name
\* makes the statement fail (sqlite3.IntegrityError) on a NOCASE-equal name
InsertItemFails(items, name) ==
    \E i \in DOMAIN items : NoCase(items[i].name) = NoCase(name)

InsertItem(items, name, t) == Append(items, MaintenanceItem(name, 1, t))

Call(op, pc, id, at, text, note, outcome) ==
    [op |-> op, pc |-> pc, id |-> id, at |-> at, text |-> text, note |-> note,
     outcome |-> outcome]

\* UI "Adicionar" up to the return of item_exists inside add_item
AddItemCheck(s, new_name) ==
    /\ started
    /\ calls[s].pc = "returned"
    /\ LET name == normalize_item_name(new_name) IN
         calls' = [calls EXCEPT ![s] =
            IF Strip(new_name) = <<>>
            THEN Call("add_item", "returned", 0, 0, <<>>, <<>>, "invalid")
            ELSE IF item_exists(maintenance_items, name)
            THEN Call("add_item", "returned", 0, 0, name, <<>>, "duplicate")
            ELSE Call("add_item", "called", 0, 0, name, <<>>, "none")]
    /\ UNCHANGED <<saving, uncommitted, origin, tables, columns, indexes, version, reports, report_items,
                   maintenance_items, general_maintenance, backups, now, started>>

\* the INSERT of add_item on its own connection, and the UI's handling of it
AddItemInsert(s) ==
    /\ calls[s].op = "add_item"
    /\ calls[s].pc = "called"
    /\ IF InsertItemFails(maintenance_items, calls[s].text)
       THEN /\ maintenance_items' = maintenance_items
            /\ calls' = [calls EXCEPT ![s].pc = "returned", ![s].outcome = "duplicate"]
       ELSE /\ maintenance_items' = InsertItem(maintenance_items, calls[s].text, now)
            /\ calls' = [calls EXCEPT ![s].pc = "returned", ![s].outcome = "created",
                                      ![s].id = Len(maintenance_items) + 1]
    /\ UNCHANGED <<saving, uncommitted, origin, tables, columns, indexes, version, reports, report_items,
                   general_maintenance, backups, now, started>>

\* Mutant: the UPDATE without "WHERE id = ?"
set_item_active_AllRows(items, item_id, active) ==
    [i \in DOMAIN items |-> [items[i] EXCEPT !.active = active]]

set_item_active(items, item_id, active) ==
    [i \in DOMAIN items |->
        IF i = item_id THEN [items[i] EXCEPT !.active = active] ELSE items[i]]

\* UI toggle: called when the toggle differs from the listed flag
SetItemActive(s, item_id, active) ==
    /\ started
    /\ calls[s].pc = "returned"
    /\ item_id \in DOMAIN maintenance_items
    /\ maintenance_items[item_id].active # active
    /\ maintenance_items' = set_item_active(maintenance_items, item_id, active)
    /\ calls' = [calls EXCEPT ![s] =
                    Call("set_item_active", "returned", item_id, 0, <<>>, <<>>, "saved")]
    /\ UNCHANGED <<saving, uncommitted, origin, tables, columns, indexes, version, reports, report_items,
                   general_maintenance, backups, now, started>>

-----------------------------------------------------------------------------
(* Reports *)

\* items_payload as the form builds it: the selected active items in the order
\* of the listing, each with the status and note chosen for it
ItemsPayload(items, options, sel, st, nt) ==
    LET chosen == SelectSeq(options, LAMBDA i : i \in sel)
    IN  [k \in DOMAIN chosen |->
            [item_id |-> chosen[k], item |-> items[chosen[k]].name,
             status |-> st[chosen[k]], note |-> nt[chosen[k]]]]

\* Mutant: the note bound as note.strip(), without "or None"
insert_report_BlankNote(rows, item_rows, t, report_date, floor, apt, technician, items_payload) ==
    [reports |-> Append(rows,
        Report(report_date, Strip(technician), t, Some(floor), Some(apt),
               Some(room_code(floor, apt)), NULL)),
     report_items |-> item_rows \o
        [k \in DOMAIN items_payload |->
            ReportItem(Len(rows) + 1, Some(items_payload[k].item_id),
                       items_payload[k].item, items_payload[k].status,
                       Some(Strip(items_payload[k].note)), NULL, NULL, NULL)]]

insert_report(rows, item_rows, t, report_date, floor, apt, technician, items_payload) ==
    LET code == room_code(floor, apt)
        report_id == Len(rows) + 1
    IN  [reports |-> Append(rows,
            Report(report_date, Strip(technician), t, Some(floor), Some(apt),
                   Some(code), NULL)),
         report_items |-> item_rows \o
            [k \in DOMAIN items_payload |->
                ReportItem(report_id, Some(items_payload[k].item_id),
                           items_payload[k].item, items_payload[k].status,
                           StripOrNone(items_payload[k].note), NULL, NULL, NULL)]]

\* UI "Salvar relatório"
SaveReport(s, report_date, floor, apt, technician, items_payload) ==
    /\ started
    /\ calls[s].pc = "returned"
    /\ ~saving[s]
    /\ IF Strip(technician) = <<>> \/ items_payload = <<>>
         THEN /\ calls' = [calls EXCEPT ![s] =
                    Call("insert_report", "returned", 0, 0, <<>>, <<>>, "rejected")]
              /\ UNCHANGED <<reports, report_items>>
         ELSE LET r == insert_report(reports, report_items, now, report_date,
                                     floor, apt, technician, items_payload) IN
              /\ reports' = r.reports
              /\ report_items' = r.report_items
              /\ calls' = [calls EXCEPT ![s] =
                    Call("insert_report", "returned", Len(reports) + 1, 0,
                         <<>>, <<>>, "saved")]
    /\ UNCHANGED <<saving, uncommitted, origin, tables, columns, indexes, version, maintenance_items,
                   general_maintenance, backups, now, started>>

\* Mutant: a connection in autocommit mode, whose INSERT INTO reports is
\* committed on its own
InsertReportRow_Autocommit(s, report_date, floor, apt, technician, items_payload) ==
    /\ started
    /\ calls[s].pc = "returned"
    /\ ~saving[s]
    /\ Strip(technician) # <<>>
    /\ items_payload # <<>>
    /\ reports' = insert_report(reports, report_items, now, report_date, floor, apt,
                                technician, items_payload).reports
    /\ uncommitted' = [uncommitted EXCEPT ![s] =
            [reports |-> <<>>, report_items |-> <<>>, items_payload |-> items_payload]]
    /\ saving' = [saving EXCEPT ![s] = TRUE]
    /\ calls' = [calls EXCEPT ![s] =
            Call("insert_report", "report_inserted", Len(reports) + 1, 0, <<>>, <<>>, "none")]
    /\ UNCHANGED <<origin, tables, columns, indexes, version, report_items,
                   maintenance_items, general_maintenance, backups, now, started>>

\* The same handler statement by statement.  insert_report runs both INSERTs
\* in the transaction that the first one opens and commits once, at the end;
\* the store shows its rows only from the commit on.
\* Up to the INSERT INTO reports:
InsertReportRow(s, report_date, floor, apt, technician, items_payload) ==
    /\ started
    /\ calls[s].pc = "returned"
    /\ ~saving[s]
    /\ Strip(technician) # <<>>
    /\ items_payload # <<>>
    /\ \A t \in Sessions : uncommitted[t] = NoRows
    /\ LET r == insert_report(reports, report_items, now, report_date, floor, apt,
                              technician, items_payload) IN
         uncommitted' = [uncommitted EXCEPT ![s] =
            [reports |-> <<r.reports[Len(reports) + 1]>>, report_items |-> <<>>,
             items_payload |-> items_payload]]
    /\ saving' = [saving EXCEPT ![s] = TRUE]
    /\ calls' = [calls EXCEPT ![s] =
            Call("insert_report", "report_inserted", Len(reports) + 1, 0, <<>>, <<>>, "none")]
    /\ UNCHANGED <<origin, tables, columns, indexes, version, reports, report_items,
                   maintenance_items, general_maintenance, backups, now, started>>

\* cur.executemany(INSERT INTO report_items ...) with report_id = cur.lastrowid
InsertReportItems(s) ==
    /\ calls[s].op = "insert_report"
    /\ calls[s].pc = "report_inserted"
    /\ LET row == uncommitted[s].reports[1]
           r == insert_report(reports, report_items, row.created_at, row.report_date,
                              Val(row.floor), Val(row.apt), row.technician,
                              uncommitted[s].items_payload)
       IN  uncommitted' = [uncommitted EXCEPT ![s].report_items =
              SubSeq(r.report_items, Len(report_items) + 1, Len(r.report_items))]
    /\ calls' = [calls EXCEPT ![s].pc = "items_inserted"]
    /\ UNCHANGED <<saving, origin, tables, columns, indexes, version, reports, report_items,
                   maintenance_items, general_maintenance, backups, now, started>>

\* conn.commit(), then the handler clears the flag and reports success
InsertReportCommit(s) ==
    /\ calls[s].op = "insert_report"
    /\ calls[s].pc = "items_inserted"
    /\ reports' = reports \o uncommitted[s].reports
    /\ report_items' = report_items \o uncommitted[s].report_items
    /\ uncommitted' = [uncommitted EXCEPT ![s] = NoRows]
    /\ saving' = [saving EXCEPT ![s] = FALSE]
    /\ calls' = [calls EXCEPT ![s].pc = "returned", ![s].outcome = "saved"]
    /\ UNCHANGED <<origin, tables, columns, indexes, version, maintenance_items,
                   general_maintenance, backups, now, started>>

\* insert_report raises (sqlite3.OperationalError: the store is locked by
\* another writer, the disk is full): the exception leaves the handler before
\* line 676, the connection is dropped with its transaction, and the script
\* run ends with the session's state kept
InsertReportFails(s) ==
    /\ calls[s].op = "insert_report"
    /\ calls[s].pc \in {"report_inserted", "items_inserted"}
    /\ uncommitted' = [uncommitted EXCEPT ![s] = NoRows]
    /\ calls' = [calls EXCEPT ![s].pc = "returned", ![s].outcome = "failed"]
    /\ UNCHANGED <<saving, origin, tables, columns, indexes, version, reports, report_items,
                   maintenance_items, general_maintenance, backups, now, started>>

\* The process dies (kill, power loss): open transactions are rolled back by
\* SQLite, the sessions and their state are gone, and the next script run
\* starts with init_db.  calls keeps, as history, where each call was cut.
Crash ==
    /\ started
    /\ uncommitted' = [s \in Sessions |-> NoRows]
    /\ saving' = [s \in Sessions |-> FALSE]
    /\ calls' = [s \in Sessions |->
            IF calls[s].pc = "returned" THEN calls[s]
            ELSE [calls[s] EXCEPT !.pc = "returned",
                                  !.outcome = "crashed_at_" \o calls[s].pc]]
    /\ started' = FALSE
    /\ UNCHANGED <<origin, tables, columns, indexes, version, reports, report_items,
                   maintenance_items, general_maintenance, backups, now>>

\* Mutant: the UPDATE without "AND resolved_at IS NULL"
ResolvePendencyUpdate_NoNullGuard(item_rows, report_item_id, at, resolved_by, resolution_note) ==
    [i \in DOMAIN item_rows |->
        IF i = report_item_id /\ item_rows[i].status = "Problema"
        THEN [item_rows[i] EXCEPT !.resolved_at = Some(at),
                                  !.resolved_by = Some(resolved_by),
                                  !.resolution_note = resolution_note]
        ELSE item_rows[i]]

\* Mutant: the UPDATE without "AND status = 'Problema'"
ResolvePendencyUpdate_NoStatusGuard(item_rows, report_item_id, at, resolved_by, resolution_note) ==
    [i \in DOMAIN item_rows |->
        IF i = report_item_id /\ IsNull(item_rows[i].resolved_at)
        THEN [item_rows[i] EXCEPT !.resolved_at = Some(at),
                                  !.resolved_by = Some(resolved_by),
                                  !.resolution_note = resolution_note]
        ELSE item_rows[i]]

\* Mutant: resolving acts as a toggle, clearing the stamps of a resolved line
ResolvePendencyUpdate_Toggle(item_rows, report_item_id, at, resolved_by, resolution_note) ==
    [i \in DOMAIN item_rows |->
        IF i = report_item_id /\ item_rows[i].status = "Problema"
        THEN IF IsNull(item_rows[i].resolved_at)
             THEN [item_rows[i] EXCEPT !.resolved_at = Some(at),
                                       !.resolved_by = Some(resolved_by),
                                       !.resolution_note = resolution_note]
             ELSE [item_rows[i] EXCEPT !.resolved_at = NULL,
                                       !.resolved_by = NULL,
                                       !.resolution_note = NULL]
        ELSE item_rows[i]]

\* UPDATE report_items SET resolved_* WHERE id = ? AND status = 'Problema'
\*   AND resolved_at IS NULL
ResolvePendencyUpdate(item_rows, report_item_id, at, resolved_by, resolution_note) ==
    [i \in DOMAIN item_rows |->
        IF /\ i = report_item_id
           /\ item_rows[i].status = "Problema"
           /\ IsNull(item_rows[i].resolved_at)
        THEN [item_rows[i] EXCEPT !.resolved_at = Some(at),
                                  !.resolved_by = Some(resolved_by),
                                  !.resolution_note = resolution_note]
        ELSE item_rows[i]]

\* resolve_pendency up to the evaluation of the UPDATE's parameters
ResolvePendencyCall(s, report_item_id, resolved_by, resolution_note) ==
    /\ started
    /\ calls[s].pc = "returned"
    /\ report_item_id \in DOMAIN report_items
    /\ Strip(resolved_by) # <<>>
    /\ calls' = [calls EXCEPT ![s] =
            Call("resolve_pendency", "called", report_item_id, now,
                 Strip(resolved_by), StripOrNone(resolution_note), "none")]
    /\ UNCHANGED <<saving, uncommitted, origin, tables, columns, indexes, version, reports, report_items,
                   maintenance_items, general_maintenance, backups, now, started>>

\* the UPDATE and its commit
ResolvePendencyExec(s) ==
    /\ calls[s].op = "resolve_pendency"
    /\ calls[s].pc = "called"
    /\ report_items' = ResolvePendencyUpdate(report_items, calls[s].id, calls[s].at,
                                             calls[s].text, calls[s].note)
    /\ calls' = [calls EXCEPT ![s].pc = "returned", ![s].outcome = "resolved"]
    /\ UNCHANGED <<saving, uncommitted, origin, tables, columns, indexes, version, reports, maintenance_items,
                   general_maintenance, backups, now, started>>

\* COALESCE(x, ''): the empty string for NULL
Coalesce(x) == IF IsNull(x) THEN <<>> ELSE Val(x)

\* WHERE r.report_date BETWEEN ? AND ? [AND r.floor = ?] of both listings,
\* over the rows of reports JOIN report_items ON ri.report_id = r.id
InListedReports(rows, item_rows, i, date_from, date_to, floor) ==
    /\ item_rows[i].report_id \in DOMAIN rows
    /\ LET r == rows[item_rows[i].report_id] IN
         /\ date_from <= r.report_date /\ r.report_date <= date_to
         /\ IsNull(floor) \/ r.floor = floor

\* ORDER BY r.report_date DESC, r.room_code ASC, r.id DESC; the lines of one
\* report tie, and are taken here in the order of their ids
OpenBefore(rows, item_rows, i, j) ==
    LET a == rows[item_rows[i].report_id]
        b == rows[item_rows[j].report_id]
    IN  IF a.report_date # b.report_date THEN a.report_date > b.report_date
        ELSE IF a.room_code # b.room_code
             THEN LexLess(Coalesce(a.room_code), Coalesce(b.room_code))
        ELSE IF item_rows[i].report_id # item_rows[j].report_id
             THEN item_rows[i].report_id > item_rows[j].report_id
        ELSE i < j

\* ORDER BY ri.resolved_at DESC, r.room_code ASC; ties in the order of the ids
ResolvedBefore(rows, item_rows, i, j) ==
    LET a == rows[item_rows[i].report_id]
        b == rows[item_rows[j].report_id]
    IN  IF item_rows[i].resolved_at # item_rows[j].resolved_at
        THEN Val(item_rows[i].resolved_at) > Val(item_rows[j].resolved_at)
        ELSE IF a.room_code # b.room_code
             THEN LexLess(Coalesce(a.room_code), Coalesce(b.room_code))
        ELSE i < j

RECURSIVE OrderOpen(_, _, _)
OrderOpen(rows, item_rows, ids) ==
    IF ids = {} THEN <<>>
    ELSE LET m == CHOOSE x \in ids :
                    \A y \in ids \ {x} : OpenBefore(rows, item_rows, x, y)
         IN  <<m>> \o OrderOpen(rows, item_rows, ids \ {m})

RECURSIVE OrderResolved(_, _, _)
OrderResolved(rows, item_rows, ids) ==
    IF ids = {} THEN <<>>
    ELSE LET m == CHOOSE x \in ids :
                    \A y \in ids \ {x} : ResolvedBefore(rows, item_rows, x, y)
         IN  <<m>> \o OrderResolved(rows, item_rows, ids \ {m})

\* Mutant: the listing of open pendencies without "AND ri.resolved_at IS NULL"
OpenPendencyIds_AllProblems(rows, item_rows, date_from, date_to, floor) ==
    OrderOpen(rows, item_rows,
        {i \in DOMAIN item_rows :
            /\ InListedReports(rows, item_rows, i, date_from, date_to, floor)
            /\ item_rows[i].status = "Problema"})

\* the report_items ids behind the rows of fetch_pendencies_open, in order
OpenPendencyIds(rows, item_rows, date_from, date_to, floor) ==
    OrderOpen(rows, item_rows,
        {i \in DOMAIN item_rows :
            /\ InListedReports(rows, item_rows, i, date_from, date_to, floor)
            /\ item_rows[i].status = "Problema"
            /\ IsNull(item_rows[i].resolved_at)})

fetch_pendencies_open(rows, item_rows, date_from, date_to, floor) ==
    LET ids == OpenPendencyIds(rows, item_rows, date_from, date_to, floor) IN
    [k \in DOMAIN ids |->
        LET ri == item_rows[ids[k]]
            r == rows[ri.report_id]
        IN  [report_id |-> ri.report_id, report_date |-> r.report_date,
             room_code |-> r.room_code, floor |-> r.floor, apt |-> r.apt,
             technician |-> r.technician, created_at |-> r.created_at,
             report_item_id |-> ids[k], item |-> ri.item, status |-> ri.status,
             note |-> Coalesce(ri.note)]]

\* the report_items ids behind the rows of fetch_resolved, in order
ResolvedPendencyIds(rows, item_rows, date_from, date_to, floor) ==
    OrderResolved(rows, item_rows,
        {i \in DOMAIN item_rows :
            /\ InListedReports(rows, item_rows, i, date_from, date_to, floor)
            /\ item_rows[i].status = "Problema"
            /\ ~IsNull(item_rows[i].resolved_at)})

fetch_resolved(rows, item_rows, date_from, date_to, floor) ==
    LET ids == ResolvedPendencyIds(rows, item_rows, date_from, date_to, floor) IN
    [k \in DOMAIN ids |->
        LET ri == item_rows[ids[k]]
            r == rows[ri.report_id]
        IN  [report_id |-> ri.report_id, report_date |-> r.report_date,
             room_code |-> r.room_code, floor |-> r.floor, apt |-> r.apt,
             technician |-> r.technician, created_at |-> r.created_at,
             item |-> ri.item, status |-> ri.status, note |-> Coalesce(ri.note),
             resolved_at |-> ri.resolved_at,
             resolved_by |-> Coalesce(ri.resolved_by),
             resolution_note |-> Coalesce(ri.resolution_note)]]

\* ORDER BY r.report_date DESC, r.floor ASC, r.apt ASC, r.id DESC (NULL sorts
\* first in ASC); the lines of one report are taken in the order of their ids
ReportsBefore(rows, item_rows, i, j) ==
    LET a == rows[item_rows[i].report_id]
        b == rows[item_rows[j].report_id]
        num(x) == IF IsNull(x) THEN -1 ELSE Val(x)
    IN  IF a.report_date # b.report_date THEN a.report_date > b.report_date
        ELSE IF a.floor # b.floor THEN num(a.floor) < num(b.floor)
        ELSE IF a.apt # b.apt THEN num(a.apt) < num(b.apt)
        ELSE IF item_rows[i].report_id # item_rows[j].report_id
             THEN item_rows[i].report_id > item_rows[j].report_id
        ELSE i < j

RECURSIVE OrderReports(_, _, _)
OrderReports(rows, item_rows, ids) ==
    IF ids = {} THEN <<>>
    ELSE LET m == CHOOSE x \in ids :
                    \A y \in ids \ {x} : ReportsBefore(rows, item_rows, x, y)
         IN  <<m>> \o OrderReports(rows, item_rows, ids \ {m})

\* fetch_reports with the apt, room code, technician and status filters left
\* unset: one row per report line, its item shown as
\* COALESCE(mi.name, ri.item) over the LEFT JOIN with the catalog
fetch_reports(rows, item_rows, items, date_from, date_to, floor) ==
    LET ids == OrderReports(rows, item_rows,
                   {i \in DOMAIN item_rows :
                       InListedReports(rows, item_rows, i, date_from, date_to, floor)})
    IN  [k \in DOMAIN ids |->
            LET ri == item_rows[ids[k]]
                r == rows[ri.report_id]
            IN  [report_id |-> ri.report_id, report_date |-> r.report_date,
                 floor |-> r.floor, apt |-> r.apt, room_code |-> r.room_code,
                 technician |-> r.technician, created_at |-> r.created_at,
                 item |-> IF ~IsNull(ri.item_id) /\ Val(ri.item_id) \in DOMAIN items
                          THEN items[Val(ri.item_id)].name
                          ELSE ri.item,
                 status |-> ri.status, note |-> Coalesce(ri.note)]]

-----------------------------------------------------------------------------
(* General maintenance *)

Ticket(d, place, description, status, technician, note, at, rat, rby, rnote) ==
    [maint_date |-> d, place |-> place, description |-> description,
     status |-> status, technician |-> technician, note |-> note,
     created_at |-> at, resolved_at |-> rat, resolved_by |-> rby,
     resolution_note |-> rnote]

insert_general_maintenance(rows, t, maint_date, place, description, status, technician, note) ==
    Append(rows, Ticket(maint_date, Strip(place), Strip(description), status,
                        Strip(technician), StripOrNone(note), t, NULL, NULL, NULL))

\* Mutant: the form without the check of the required fields
SaveTicket_NoValidation(s, maint_date, place, description, status, technician, note) ==
    /\ started
    /\ calls[s].pc = "returned"
    /\ general_maintenance' =
            insert_general_maintenance(general_maintenance, now, maint_date,
                                       place, description, status, technician, note)
    /\ calls' = [calls EXCEPT ![s] =
            Call("insert_general_maintenance", "returned",
                 Len(general_maintenance) + 1, 0, <<>>, <<>>, "saved")]
    /\ UNCHANGED <<saving, uncommitted, origin, tables, columns, indexes, version, reports, report_items,
                   maintenance_items, backups, now, started>>

\* UI "Salvar Manutenção Geral"
SaveTicket(s, maint_date, place, description, status, technician, note) ==
    /\ started
    /\ calls[s].pc = "returned"
    /\ IF Strip(place) = <<>> \/ Strip(technician) = <<>> \/ Strip(description) = <<>>
       THEN /\ calls' = [calls EXCEPT ![s] =
                    Call("insert_general_maintenance", "returned", 0, 0, <<>>, <<>>,
                         "rejected")]
            /\ UNCHANGED general_maintenance
       ELSE /\ general_maintenance' =
                    insert_general_maintenance(general_maintenance, now, maint_date,
                                               place, description, status,
                                               technician, note)
            /\ calls' = [calls EXCEPT ![s] =
                    Call("insert_general_maintenance", "returned",
                         Len(general_maintenance) + 1, 0, <<>>, <<>>, "saved")]
    /\ UNCHANGED <<saving, uncommitted, origin, tables, columns, indexes, version, reports, report_items,
                   maintenance_items, backups, now, started>>

\* Mutant: the UPDATE with the guard of resolve_pendency, "AND resolved_at IS
\* NULL"
resolve_general_maintenance_Once(rows, gm_id, t, resolved_by, resolution_note) ==
    [i \in DOMAIN rows |->
        IF i = gm_id /\ IsNull(rows[i].resolved_at)
        THEN [rows[i] EXCEPT !.status = "Resolvido",
                             !.resolved_at = Some(t),
                             !.resolved_by = Some(Strip(resolved_by)),
                             !.resolution_note = StripOrNone(resolution_note)]
        ELSE rows[i]]

\* UPDATE general_maintenance SET status = 'Resolvido', resolved_* WHERE id = ?
resolve_general_maintenance(rows, gm_id, t, resolved_by, resolution_note) ==
    [i \in DOMAIN rows |->
        IF i = gm_id
        THEN [rows[i] EXCEPT !.status = "Resolvido",
                             !.resolved_at = Some(t),
                             !.resolved_by = Some(Strip(resolved_by)),
                             !.resolution_note = StripOrNone(resolution_note)]
        ELSE rows[i]]

\* UI "Marcar como resolvido" of a ticket
ResolveTicket(s, gm_id, resolved_by, resolution_note) ==
    /\ started
    /\ calls[s].pc = "returned"
    /\ gm_id \in DOMAIN general_maintenance
    /\ Strip(resolved_by) # <<>>
    /\ general_maintenance' =
            resolve_general_maintenance(general_maintenance, gm_id, now,
                                        resolved_by, resolution_note)
    /\ calls' = [calls EXCEPT ![s] =
            Call("resolve_general_maintenance", "returned", gm_id, now, <<>>, <<>>,
                 "resolved")]
    /\ UNCHANGED <<saving, uncommitted, origin, tables, columns, indexes, version, reports, report_items,
                   maintenance_items, backups, now, started>>

-----------------------------------------------------------------------------
(* Inputs *)

Txt_cofre == <<"c","o","f","r","e">>
Txt_CofrePadded == <<" ","C","O","F","R","E"," ">>
Txt_ArFrio == <<"A","r"," "," ","f","r","i","o">>
Txt_Acao == <<"A","c","a~","o">>
Txt_ACAO == <<"A","C","A~","O">>
Txt_Blank == <<" ">>
Txt_CarlosPadded == <<" ","C","a","r","l","o","s"," ">>
Txt_Trocado == <<"t","r","o","c","a","d","o">>
Txt_Recepcao == <<"R","e","c","e","p","c","a","o">>

NameInputs == {Txt_cofre, Txt_CofrePadded, Txt_ArFrio, Txt_Acao, Txt_ACAO, Txt_Blank}
TechnicianInputs == {Txt_Ana, Txt_Blank}
NoteInputs == {<<>>, Txt_Trocado}
Dates == {1}
Rooms == {<<1, 1>>, <<1, AptsPerFloor>>, <<FloorCount, 1>>, <<FloorCount, AptsPerFloor>>}
UiStatuses == {"OK", "Problema"}

\* the "De" / "Até" dates and the floor filter of the listings
QueryDates == UNION {{d - 1, d, d + 1} : d \in Dates}
QueryFloors == {NULL, Some(1), Some(FloorCount)}

\* what each session types as resolver and as resolution note
ResolverOf == <<Txt_Ana, Txt_CarlosPadded>>
ResolutionNoteOf == <<Txt_Blank, Txt_Trocado>>

\* the catalog ids a user ticks in the checklist
PickIds == {1, 2}

DoSaveReport(cap, rooms, ids, statuses, notes, techs) ==
    LET options == list_items(maintenance_items, TRUE) IN
    /\ Len(reports) < cap
    /\ \E sel \in SUBSET ids :
       \E st \in [sel -> statuses], nt \in [sel -> notes] :
          LET items_payload == ItemsPayload(maintenance_items, options, sel, st, nt) IN
          \E s \in {1}, d \in Dates, room \in rooms, tech \in techs :
             SaveReport(s, d, room[1], room[2], tech, items_payload)

DoInsertReportRow(cap, rooms, ids, statuses, notes, techs) ==
    LET options == list_items(maintenance_items, TRUE) IN
    /\ Len(reports) < cap
    /\ \E sel \in SUBSET ids :
       \E st \in [sel -> statuses], nt \in [sel -> notes] :
          LET items_payload == ItemsPayload(maintenance_items, options, sel, st, nt) IN
          \E s \in {1}, d \in Dates, room \in rooms, tech \in techs :
             InsertReportRow(s, d, room[1], room[2], tech, items_payload)

DoResolvePendencyCall(ss) ==
    \E s \in ss, i \in DOMAIN report_items :
       ResolvePendencyCall(s, i, ResolverOf[s], ResolutionNoteOf[s])

DoResolvePendencyExec == \E s \in Sessions : ResolvePendencyExec(s)

DoSetItemActive(ss, ids) ==
    \E s \in ss, i \in ids, a \in {0, 1} : SetItemActive(s, i, a)

DoAddItemCheck(ss) ==
    \E s \in ss, n \in NameInputs :
       Len(maintenance_items) < Len(defaults) + MaxAdded /\ AddItemCheck(s, n)

DoAddItemInsert(ss) == \E s \in ss : AddItemInsert(s)

DoSaveTicket(places, descriptions, techs, notes) ==
    /\ Len(general_maintenance) < MaxTickets
    /\ \E s \in {1}, d \in Dates, place \in places,
       description \in descriptions, status \in Range(GM_STATUSES),
       tech \in techs, note \in notes :
       SaveTicket(s, d, place, description, status, tech, note)

DoResolveTicket(ss) ==
    \E s \in ss, i \in DOMAIN general_maintenance :
       ResolveTicket(s, i, ResolverOf[s], ResolutionNoteOf[s])

\* Reports and their pendencies over the life of a store, within one tick of
\* the clock: the two sessions' stamps differ by resolver and note
Init ==
    InitFrom({EmptyStore}
             \cup HistoricalStores(1..4, LegacyRowSpecs({1}, Range(STATUSES)), MaxHistory))

Next ==
    \/ init_db
    \/ DoSaveReport(MaxReports, {<<1, 1>>}, PickIds, UiStatuses, {<<>>}, {Txt_Ana})
    \/ DoResolvePendencyCall(Sessions)
    \/ DoResolvePendencyExec

Spec == Init /\ [][Next]_vars

\* Reports of a new store, on two floors, and their pendencies as the
\* listings of the Pendências and Relatórios pages show them
NextListing ==
    \/ init_db
    \/ DoSaveReport(MaxReports, {<<1, 1>>, <<FloorCount, 1>>}, PickIds, UiStatuses, {<<>>}, {Txt_Ana})
    \/ DoResolvePendencyCall({1})
    \/ DoResolvePendencyExec

SpecListing == InitFrom({EmptyStore}) /\ [][NextListing]_vars

\* Room codes: the migration backfill and new reports
InitRooms ==
    InitFrom({EmptyStore}
             \cup HistoricalStores(1..4, LegacyRowSpecs(LegacyRooms, {"OK"}), MaxHistory))

NextRooms ==
    \/ init_db
    \/ DoSaveReport(MaxHistory + MaxReports, Rooms, {1}, {"OK"}, {<<>>}, TechnicianInputs)

SpecRooms == InitRooms /\ [][NextRooms]_vars

\* The item catalog, one session at work
InitCatalog == InitFrom({EmptyStore})

NextCatalog ==
    \/ init_db
    \/ Tick
    \/ DoAddItemCheck({1})
    \/ DoAddItemInsert({1})
    \/ DoSetItemActive({1}, {2})

SpecCatalog == InitCatalog /\ [][NextCatalog]_vars

\* Reports written against a catalog whose items are switched off and on
NextItems ==
    \/ init_db
    \/ DoSaveReport(MaxReports, {<<1, 1>>}, PickIds, UiStatuses,
                    {Txt_Blank, Txt_CarlosPadded}, {Txt_CarlosPadded})
    \/ DoSetItemActive({1}, PickIds)

SpecItems == InitCatalog /\ [][NextItems]_vars

\* insert_report statement by statement, with crashes of the process
NextCrash ==
    \/ init_db
    \/ DoInsertReportRow(MaxReports, {<<1, 1>>, <<FloorCount, AptsPerFloor>>}, PickIds,
                         UiStatuses, {Txt_Blank, Txt_CarlosPadded}, {Txt_CarlosPadded})
    \/ \E s \in Sessions : InsertReportItems(s)
    \/ \E s \in Sessions : InsertReportCommit(s)
    \/ Crash

SpecCrash == InitCatalog /\ [][NextCrash]_vars

\* Save clicks that end saved, rejected or with insert_report raising
NextSaving ==
    \/ init_db
    \/ DoSaveReport(MaxReports, {<<1, 1>>}, PickIds, UiStatuses, {<<>>}, TechnicianInputs)
    \/ DoInsertReportRow(MaxReports, {<<1, 1>>}, PickIds, UiStatuses,
                         {Txt_Blank, Txt_CarlosPadded}, {Txt_CarlosPadded})
    \/ \E s \in Sessions : InsertReportItems(s)
    \/ \E s \in Sessions : InsertReportCommit(s)
    \/ \E s \in Sessions : InsertReportFails(s)

SpecSaving == InitCatalog /\ [][NextSaving]_vars

\* The two forms with required fields
NextValidation ==
    \/ init_db
    \/ DoSaveReport(MaxReports, {<<1, 1>>}, {2}, {"OK"}, {<<>>}, TechnicianInputs)
    \/ DoSaveTicket({Txt_Recepcao, Txt_Blank}, {Txt_Trocado, Txt_Blank}, TechnicianInputs, NoteInputs)

SpecValidation == InitCatalog /\ [][NextValidation]_vars

\* The item catalog, two sessions at work
NextCatalogShared ==
    \/ init_db
    \/ Tick
    \/ DoAddItemCheck(Sessions)
    \/ DoAddItemInsert(Sessions)
    \/ DoSetItemActive({1}, {2})

SpecCatalogShared == InitCatalog /\ [][NextCatalogShared]_vars

\* General maintenance tickets
InitTickets == InitFrom({EmptyStore})

NextTickets ==
    \/ init_db
    \/ Tick
    \/ DoSaveTicket({Txt_Recepcao, Txt_Blank}, {Txt_Trocado, Txt_Blank}, TechnicianInputs, NoteInputs)
    \/ DoResolveTicket({1})

SpecTickets == InitTickets /\ [][NextTickets]_vars

\* Tickets resolved from the two sessions, at the same or at different times
NextResolve ==
    \/ init_db
    \/ Tick
    \/ DoSaveTicket({Txt_Recepcao}, {Txt_Trocado}, {Txt_Ana}, {Txt_Blank})
    \/ DoResolveTicket(Sessions)

SpecResolve == InitTickets /\ [][NextResolve]_vars

-----------------------------------------------------------------------------
(* Properties *)

ResolutionFields == {"resolved_at", "resolved_by", "resolution_note"}

\* session s executes the UPDATE of its resolve_pendency call in this step
ResolveExecStep(s) ==
    /\ calls[s].op = "resolve_pendency"
    /\ calls[s].pc = "called"
    /\ calls'[s].pc = "returned"

\* C1: of the resolve_pendency calls on one report item, run one after the
\* other or interleaved, only the first UPDATE to execute on the open item
\* writes, and it writes its own caller's stamps; an UPDATE that finds the
\* item already resolved changes no row.
C1_FirstWriterWins ==
    [][\A s \in Sessions :
        ResolveExecStep(s) =>
            LET i == calls[s].id
                row == report_items[i]
            IN  IF row.status = "Problema" /\ IsNull(row.resolved_at)
                THEN /\ report_items'[i] =
                            [row EXCEPT !.resolved_at = Some(calls[s].at),
                                        !.resolved_by = Some(calls[s].text),
                                        !.resolution_note = calls[s].note]
                     /\ \A j \in DOMAIN report_items \ {i} :
                            report_items'[j] = report_items[j]
                ELSE report_items' = report_items]_vars

\* both sessions have resolved the same item; it carries the stamps of one of
\* them and the other's differ
C1_Witness ==
    \E s \in Sessions, t \in Sessions :
        /\ s # t
        /\ calls[s].op = "resolve_pendency" /\ calls[s].pc = "returned"
        /\ calls[t].op = "resolve_pendency" /\ calls[t].pc = "returned"
        /\ calls[s].id = calls[t].id
        /\ report_items[calls[s].id].resolved_by = Some(calls[s].text)
        /\ report_items[calls[s].id].resolved_at = Some(calls[s].at)
        /\ report_items[calls[s].id].resolved_by # Some(calls[t].text)

RequiredColumns ==
    {<<"reports", "floor">>, <<"reports", "apt">>, <<"reports", "room_code">>,
     <<"report_items", "item_id">>, <<"report_items", "resolved_at">>,
     <<"report_items", "resolved_by">>, <<"report_items", "resolution_note">>}

\* C2: once init_db has completed, whatever store it found (none, or one of
\* versions 1..4), schema_meta.version is 4, the required columns exist and
\* so does the maintenance_items table.
C2_StartupReachesLatest ==
    started =>
        /\ version = TargetVersion
        /\ RequiredColumns \subseteq columns
        /\ "maintenance_items" \in tables

\* a version 1 store with rows, after its first startup
C2_Witness ==
    /\ started
    /\ origin = 1
    /\ backups = 1
    /\ Len(reports) = MaxLegacy
    /\ version = TargetVersion
    /\ RequiredColumns \subseteq columns

\* C3: a run of init_db on a store that a previous run has completed on leaves
\* the schema (tables, columns, indexes, version) and every row as they were.
C3_SecondRunChangesNothing ==
    [][(started /\ started' /\ backups' # backups) => Db' = Db]_vars

\* the second run on a store that was migrated from version 1 by the first
C3_Witness ==
    /\ started
    /\ origin = 1
    /\ backups = 2
    /\ reports # <<>>

\* two decimal digits, zero padded, of a number in 0..99
TwoDigits(n) == <<DigitChars[(n \div 10) + 1], DigitChars[(n % 10) + 1]>>

\* C4: after startup on a version 1 store, every historical row (legacy room
\* in 1..216) has floor = ((room-1) div 18)+1, apt = ((room-1) mod 18)+1 and
\* room_code = the two digits of floor followed by the two digits of apt, and
\* the version is the latest.
C4_BackfillFromLegacyRoom ==
    (started /\ origin = 1) =>
        /\ version = TargetVersion
        /\ \A i \in DOMAIN reports :
            LET r == reports[i] IN
            ~IsNull(r.room) =>
                /\ r.floor = Some(((Val(r.room) - 1) \div AptsPerFloor) + 1)
                /\ r.apt = Some(((Val(r.room) - 1) % AptsPerFloor) + 1)
                /\ ~IsNull(r.room_code)
                /\ Val(r.room_code) = TwoDigits(Val(r.floor)) \o TwoDigits(Val(r.apt))

\* a migrated version 1 store holding the last room of a floor and the first
\* of the next
C4_Witness ==
    /\ started
    /\ origin = 1
    /\ \E i \in DOMAIN reports :
          reports[i].room = Some(AptsPerFloor) /\ reports[i].room_code = Some(<<"0","1","1","8">>)
    /\ \E i \in DOMAIN reports :
          reports[i].room = Some(AptsPerFloor + 1) /\ reports[i].room_code = Some(<<"0","2","0","1">>)

\* the values of row `new` that row `old` had populated are the same
KeepsPopulated(old, new, nullable) ==
    \A f \in DOMAIN old :
        IF f \in nullable
        THEN IsNull(old[f]) \/ new[f] = old[f]
        ELSE new[f] = old[f]

RowsKept(old, new, nullable) ==
    /\ Len(new) >= Len(old)
    /\ \A i \in DOMAIN old : KeepsPopulated(old[i], new[i], nullable)

\* C5: a run of init_db drops no table, column or index and no row, and
\* changes no column value that was populated before it.
C5_MigrationKeepsData ==
    [][backups' # backups \/ started' # started =>
        /\ tables \subseteq tables'
        /\ columns \subseteq columns'
        /\ indexes \subseteq indexes'
        /\ RowsKept(reports, reports', {"floor", "apt", "room_code", "room"})
        /\ RowsKept(report_items, report_items',
                    {"item_id", "note"} \cup ResolutionFields)
        /\ RowsKept(maintenance_items, maintenance_items', {})
        /\ RowsKept(general_maintenance, general_maintenance',
                    {"note"} \cup ResolutionFields)]_vars

\* a migrated version 1 store still holding all its rows
C5_Witness ==
    /\ started
    /\ origin = 1
    /\ Len(reports) = MaxLegacy
    /\ Len(report_items) = MaxLegacy
    /\ \A i \in DOMAIN reports : ~IsNull(reports[i].room)
    /\ \A i \in DOMAIN report_items : report_items[i].note = Some(Txt_Note)

\* C6: in every state, a report row that has any of floor, apt, room_code has
\* all three, and its room_code is the two digits of its floor followed by the
\* two digits of its apt; after startup every row has them.
C6_RoomCodeMatchesFloorApt ==
    \A i \in DOMAIN reports :
        LET r == reports[i] IN
        /\ started => ~IsNull(r.room_code)
        /\ (~IsNull(r.floor) \/ ~IsNull(r.apt) \/ ~IsNull(r.room_code)) =>
              /\ ~IsNull(r.floor) /\ ~IsNull(r.apt) /\ ~IsNull(r.room_code)
              /\ Val(r.room_code) = TwoDigits(Val(r.floor)) \o TwoDigits(Val(r.apt))

\* a store holding a row backfilled by the migration and a row written by
\* insert_report
C6_Witness ==
    /\ started
    /\ origin = 1
    /\ \E i \in DOMAIN reports : ~IsNull(reports[i].room) /\ ~IsNull(reports[i].room_code)
    /\ \E i \in DOMAIN reports : IsNull(reports[i].room) /\ ~IsNull(reports[i].room_code)

\* C7: in every state, a report item whose status is not 'Problema' has
\* resolved_at, resolved_by and resolution_note all NULL.
C7_StampsOnlyOnProblema ==
    \A i \in DOMAIN report_items :
        report_items[i].status # "Problema" =>
            \A f \in ResolutionFields : IsNull(report_items[i][f])

\* a resolve_pendency call has returned on an item created with status 'OK'
C7_Witness ==
    \E s \in Sessions :
        /\ calls[s].op = "resolve_pendency"
        /\ calls[s].pc = "returned"
        /\ report_items[calls[s].id].status = "OK"
        /\ ~IsNull(report_items[calls[s].id].item_id)

\* C8: once a report item has resolved_at set, every step leaves its status
\* 'Problema' and its three resolution fields as they are.
C8_ResolutionIsOneWay ==
    [][\A i \in DOMAIN report_items :
          ~IsNull(report_items[i].resolved_at) =>
              /\ i \in DOMAIN report_items'
              /\ report_items[i].status = "Problema"
              /\ report_items'[i].status = "Problema"
              /\ \A f \in ResolutionFields :
                    report_items'[i][f] = report_items[i][f]]_vars

\* a resolved item on which a later resolve_pendency call has returned, after
\* another startup
C8_Witness ==
    \E s \in Sessions :
        /\ calls[s].op = "resolve_pendency"
        /\ calls[s].pc = "returned"
        /\ ~IsNull(report_items[calls[s].id].resolved_at)
        /\ report_items[calls[s].id].resolved_by # Some(calls[s].text)
        /\ backups = MaxBackups

\* the listings of one query, as ids and as rows
ListedOpen(date_from, date_to, floor) ==
    fetch_pendencies_open(reports, report_items, date_from, date_to, floor)

ListedResolved(date_from, date_to, floor) ==
    fetch_resolved(reports, report_items, date_from, date_to, floor)

\* item i is a row of the open listing `open` and none of the resolved
\* listing, whose rows stand for the items resIds
ShownAsOpen(i, open, resIds) ==
    /\ \E k \in DOMAIN open : open[k].report_item_id = i
    /\ \A k \in DOMAIN resIds : resIds[k] # i

\* item i is no row of the open listing and exactly one row of the resolved
\* listing resRows, which shows `by` as resolved_by
ShownAsResolved(i, by, open, resIds, resRows) ==
    /\ \A k \in DOMAIN open : open[k].report_item_id # i
    /\ Cardinality({k \in DOMAIN resIds : resIds[k] = i}) = 1
    /\ \A k \in DOMAIN resIds : resIds[k] = i => resRows[k].resolved_by = by

ListedAsOpen(i, date_from, date_to, floor) ==
    ShownAsOpen(i, ListedOpen(date_from, date_to, floor),
                ResolvedPendencyIds(reports, report_items, date_from, date_to, floor))

ListedAsResolved(i, by, date_from, date_to, floor) ==
    ShownAsResolved(i, by, ListedOpen(date_from, date_to, floor),
                    ResolvedPendencyIds(reports, report_items, date_from, date_to, floor),
                    ListedResolved(date_from, date_to, floor))

\* C11: after startup, for every 'Problema' item and every query (inclusive
\* date range, optional floor) that covers its report: while the item is
\* unresolved the open listing returns it and the resolved listing does not;
\* once resolved the open listing no longer returns it and the resolved
\* listing returns it exactly once, with the resolved_by stored on it; and the
\* resolve_pendency call that resolves an open item makes the listing show
\* that call's resolver.
C11_ListingsFollowResolution ==
    /\ [](started =>
            \A df \in QueryDates, dt \in QueryDates, fl \in QueryFloors :
                df <= dt =>
                LET open == ListedOpen(df, dt, fl)
                    resIds == ResolvedPendencyIds(reports, report_items, df, dt, fl)
                    resRows == ListedResolved(df, dt, fl)
                IN  \A i \in DOMAIN report_items :
                       (/\ report_items[i].status = "Problema"
                        /\ InListedReports(reports, report_items, i, df, dt, fl))
                       => IF IsNull(report_items[i].resolved_at)
                          THEN ShownAsOpen(i, open, resIds)
                          ELSE ShownAsResolved(i, Coalesce(report_items[i].resolved_by),
                                               open, resIds, resRows))
    /\ [][\A s \in Sessions :
            (/\ ResolveExecStep(s)
             /\ report_items[calls[s].id].status = "Problema"
             /\ IsNull(report_items[calls[s].id].resolved_at))
            => \A df \in QueryDates, dt \in QueryDates :
                  (/\ df <= dt
                   /\ InListedReports(reports, report_items, calls[s].id, df, dt, NULL))
                  => /\ ListedAsOpen(calls[s].id, df, dt, NULL)
                     /\ ListedAsResolved(calls[s].id, calls[s].text, df, dt, NULL)']_vars

\* one report with two 'Problema' lines, one resolved through a
\* resolve_pendency call and listed as resolved, the other listed as open
C11_Witness ==
    /\ started
    /\ \E s \in Sessions, j \in DOMAIN report_items :
          /\ calls[s].op = "resolve_pendency" /\ calls[s].pc = "returned"
          /\ j # calls[s].id
          /\ report_items[j].report_id = report_items[calls[s].id].report_id
          /\ report_items[calls[s].id].resolved_by = Some(calls[s].text)
          /\ ListedAsResolved(calls[s].id, calls[s].text, 1, 1, NULL)
          /\ ListedAsOpen(j, 1, 1, NULL)

\* session s has toggled a catalog item in this step
SetItemActiveStep(s) ==
    /\ calls'[s].op = "set_item_active"
    /\ maintenance_items' # maintenance_items

\* C12: a set_item_active call changes the active flag of its item and nothing
\* else: the catalog keeps its rows, names and creation stamps, the other
\* items keep their flag, no report or report line changes; after a
\* deactivation the item is not in the active-only listing, and every report
\* line that references it is still listed by fetch_reports under its name.
C12_SetItemActiveOnlyFlag ==
    [][\A s \in Sessions :
        SetItemActiveStep(s) =>
            LET id == calls'[s].id IN
            /\ DOMAIN maintenance_items' = DOMAIN maintenance_items
            /\ \A i \in DOMAIN maintenance_items :
                  /\ maintenance_items'[i].name = maintenance_items[i].name
                  /\ maintenance_items'[i].created_at = maintenance_items[i].created_at
                  /\ i # id => maintenance_items'[i].active = maintenance_items[i].active
            /\ reports' = reports
            /\ report_items' = report_items
            /\ maintenance_items'[id].active = 0 =>
                  /\ \A k \in DOMAIN list_items(maintenance_items', TRUE) :
                        list_items(maintenance_items', TRUE)[k] # id
                  /\ LET before == fetch_reports(reports, report_items,
                                                 maintenance_items, 1, 1, NULL)
                         after == fetch_reports(reports', report_items',
                                                maintenance_items', 1, 1, NULL)
                     IN  /\ after = before
                         /\ Len(after) = Len(report_items)
                         /\ \A j \in DOMAIN report_items :
                               report_items[j].item_id = Some(id) =>
                                  \E k \in DOMAIN after :
                                     /\ after[k].report_id = report_items[j].report_id
                                     /\ after[k].item = maintenance_items[id].name]_vars

\* an item that a saved report references has been switched off
C12_Witness ==
    \E s \in Sessions :
        /\ calls[s].op = "set_item_active"
        /\ maintenance_items[calls[s].id].active = 0
        /\ \E j \in DOMAIN report_items : report_items[j].item_id = Some(calls[s].id)
        /\ \E j \in DOMAIN report_items : report_items[j].item_id # Some(calls[s].id)

\* session s commits its insert_report in this step
InsertReportCommitStep(s) ==
    /\ calls[s].op = "insert_report"
    /\ calls[s].pc = "items_inserted"
    /\ calls'[s].outcome = "saved"

\* C13: the commit of an insert_report call adds exactly one reports row, whose
\* room_code is the two digits of its floor followed by the two digits of its
\* apt, and exactly one report_items row per entry of the payload, in order,
\* carrying the new report's id and the entry's item_id, item and status,
\* the three resolution fields NULL, and the note trimmed, or NULL when the
\* entry's note is blank; every earlier row and every other table is as before.
C13_CreateReportWritesExactly ==
    [][\A s \in Sessions :
        InsertReportCommitStep(s) =>
            LET payload == uncommitted[s].items_payload
                rid == Len(reports) + 1
                n == Len(report_items)
            IN  /\ Len(reports') = rid
                /\ SubSeq(reports', 1, rid - 1) = reports
                /\ ~IsNull(reports'[rid].floor) /\ ~IsNull(reports'[rid].apt)
                /\ reports'[rid].room_code =
                       Some(TwoDigits(Val(reports'[rid].floor))
                            \o TwoDigits(Val(reports'[rid].apt)))
                /\ Len(report_items') = n + Len(payload)
                /\ SubSeq(report_items', 1, n) = report_items
                /\ \A k \in DOMAIN payload :
                      LET ri == report_items'[n + k] IN
                      /\ ri.report_id = rid
                      /\ ri.item_id = Some(payload[k].item_id)
                      /\ ri.item = payload[k].item
                      /\ ri.status = payload[k].status
                      /\ \A f \in ResolutionFields : IsNull(ri[f])
                      /\ ri.note = IF Strip(payload[k].note) = <<>> THEN NULL
                                   ELSE Some(Strip(payload[k].note))
                /\ maintenance_items' = maintenance_items
                /\ general_maintenance' = general_maintenance
                /\ <<tables, columns, indexes, version>>' =
                       <<tables, columns, indexes, version>>]_vars

\* a committed report for room 1218 with two lines, one whose note was blank
\* and one whose note was typed with spaces around it
C13_Witness ==
    /\ \E s \in Sessions : calls[s].op = "insert_report" /\ calls[s].outcome = "saved"
    /\ \E i \in DOMAIN reports : reports[i].room_code = Some(<<"1","2","1","8">>)
    /\ \E i \in DOMAIN report_items, j \in DOMAIN report_items :
          /\ report_items[i].report_id = report_items[j].report_id
          /\ IsNull(report_items[i].note)
          /\ report_items[j].note = Some(Txt_Carlos)

\* the process dies in this step while session s is inside insert_report
\* after its INSERT INTO reports and before its INSERT INTO report_items
CrashBeforeItemsStep(s) ==
    /\ calls[s].op = "insert_report"
    /\ calls[s].pc = "report_inserted"
    /\ calls'[s].outcome = "crashed_at_report_inserted"

HasNoItems(rows, item_rows, r) ==
    r \in DOMAIN rows /\ \A j \in DOMAIN item_rows : item_rows[j].report_id # r

\* C16 as stated: a crash between the INSERT of the report and the INSERT of
\* its items leaves, in the store, that report without items.
C16_CrashLeavesReportWithoutItems ==
    [][\A s \in Sessions :
        CrashBeforeItemsStep(s) => HasNoItems(reports', report_items', calls[s].id)]_vars

\* C16 amended: insert_report is atomic.  A crash at any point of the call
\* leaves every table of the store as it was before the call, and in a store
\* that started empty every report has at least one report_items row in
\* every state.
C16_CrashLeavesStoreAsBefore ==
    /\ [](\A r \in DOMAIN reports : ~HasNoItems(reports, report_items, r))
    /\ [][\A s \in Sessions :
            (calls[s].op = "insert_report" /\ calls[s].pc # "returned"
             /\ calls'[s].pc = "returned" /\ calls'[s].outcome # "saved")
            => /\ Db' = Db
               /\ uncommitted'[s] = NoRows]_vars

\* the process has died between the two INSERTs of a call, and the store
\* holds no trace of the call's report
C16_Witness ==
    \E s \in Sessions :
        /\ calls[s].outcome = "crashed_at_report_inserted"
        /\ calls[s].id \notin DOMAIN reports

\* session s ends a save click with a validation error in this step
RejectedStep(s) ==
    /\ calls'[s].outcome = "rejected"
    /\ calls'[s] # calls[s]

\* C14: a submission of either form that ends with a validation error leaves
\* every table as it was; a reports row is never written with an empty
\* technician or without lines, nor a general_maintenance row with an empty
\* place, technician or description; and right after a rejection the same
\* form, filled in, saves a row.
C14_RejectedInputWritesNothing ==
    /\ [](/\ \A i \in DOMAIN reports :
                /\ reports[i].technician # <<>>
                /\ ~HasNoItems(reports, report_items, i)
          /\ \A i \in DOMAIN general_maintenance :
                /\ general_maintenance[i].place # <<>>
                /\ general_maintenance[i].technician # <<>>
                /\ general_maintenance[i].description # <<>>)
    /\ [][\A s \in Sessions : RejectedStep(s) => Db' = Db]_vars
    /\ [](\A s \in Sessions :
            calls[s].outcome = "rejected" =>
               /\ calls[s].op = "insert_report" =>
                     ENABLED (/\ SaveReport(s, 1, 1, 1, Txt_Ana,
                                     ItemsPayload(maintenance_items, <<2>>, {2},
                                                  [i \in {2} |-> "OK"],
                                                  [i \in {2} |-> <<>>]))
                              /\ Len(reports') = Len(reports) + 1)
               /\ calls[s].op = "insert_general_maintenance" =>
                     ENABLED (/\ SaveTicket(s, 1, Txt_Recepcao, Txt_Trocado, "Aberto",
                                             Txt_Ana, <<>>)
                              /\ Len(general_maintenance') =
                                     Len(general_maintenance) + 1))

\* the ticket form has been rejected in a store that holds a report and a
\* ticket
C14_Witness ==
    /\ Len(reports) = 1
    /\ Len(general_maintenance) = 1
    /\ calls[1].op = "insert_general_maintenance"
    /\ calls[1].outcome = "rejected"

\* C15: a run of init_db that finds maintenance_items without rows (or
\* without the table) leaves exactly the default list in it, in order, every
\* entry active and stamped with the time of the run; a run that finds at
\* least one row, active or not, leaves the catalog as it found it.
C15_SeedOnlyWhenEmpty ==
    [][(backups' # backups \/ started' # started) =>
          IF maintenance_items = <<>>
          THEN maintenance_items' =
                  [i \in DOMAIN defaults |-> MaintenanceItem(defaults[i], 1, now)]
          ELSE maintenance_items' = maintenance_items]_vars

\* startups have run on a catalog that holds the defaults, one of them
\* switched off, and an added item
C15_Witness ==
    /\ started
    /\ backups = MaxBackups
    /\ Len(maintenance_items) = Len(defaults) + 1
    /\ maintenance_items[2].active = 0
    /\ \A i \in DOMAIN defaults : maintenance_items[i].name = defaults[i]

\* C17: a resolve_general_maintenance call on an existing ticket, whatever
\* the ticket's status and stamps before it, leaves the ticket with status
\* 'Resolvido', resolved_at the time of the call, resolved_by the call's
\* trimmed resolver and resolution_note the call's trimmed note (NULL when
\* blank), and changes nothing else of that ticket or of any other.
C17_ResolveTicketOverwrites ==
    [][(\/ \E s \in Sessions :
              calls'[s] # calls[s] /\ calls'[s].op = "resolve_general_maintenance"
        \/ /\ general_maintenance' # general_maintenance
           /\ Len(general_maintenance') = Len(general_maintenance))
       => \E s \in Sessions :
            LET id == calls'[s].id IN
            /\ calls'[s].op = "resolve_general_maintenance"
            /\ calls'[s].at = now
            /\ id \in DOMAIN general_maintenance
            /\ general_maintenance' =
                  [general_maintenance EXCEPT ![id] =
                      [general_maintenance[id] EXCEPT
                          !.status = "Resolvido",
                          !.resolved_at = Some(now),
                          !.resolved_by = Some(Strip(ResolverOf[s])),
                          !.resolution_note = StripOrNone(ResolutionNoteOf[s])]]]_vars

\* both sessions have resolved the same ticket, the first at time 0 and the
\* second later: the ticket carries the second's stamps
C17_Witness ==
    \E s \in Sessions, t \in Sessions :
        /\ s # t
        /\ calls[s].op = "resolve_general_maintenance"
        /\ calls[t].op = "resolve_general_maintenance"
        /\ calls[s].id = calls[t].id
        /\ calls[s].at < calls[t].at
        /\ general_maintenance[calls[t].id].resolved_at = Some(calls[t].at)
        /\ general_maintenance[calls[t].id].resolved_by = Some(Strip(ResolverOf[t]))

\* the column, table and index additions of the migration step that leaves
\* version v, v + 1 (lines 254-273, 278-294, 299-308)
StepAdditions ==
    << << [kind |-> "column", table |-> "reports", name |-> "floor"],
          [kind |-> "column", table |-> "reports", name |-> "apt"],
          [kind |-> "column", table |-> "reports", name |-> "room_code"],
          [kind |-> "index", table |-> "reports", name |-> "idx_reports_date"],
          [kind |-> "index", table |-> "reports", name |-> "idx_reports_roomcode"],
          [kind |-> "index", table |-> "reports", name |-> "idx_reports_floor_apt"] >>,
       << [kind |-> "table", table |-> "maintenance_items", name |-> "maintenance_items"],
          [kind |-> "column", table |-> "report_items", name |-> "item_id"],
          [kind |-> "index", table |-> "maintenance_items", name |-> "idx_items_active"],
          [kind |-> "index", table |-> "report_items", name |-> "idx_report_items_item_id"] >>,
       << [kind |-> "column", table |-> "report_items", name |-> "resolved_at"],
          [kind |-> "column", table |-> "report_items", name |-> "resolved_by"],
          [kind |-> "column", table |-> "report_items", name |-> "resolution_note"],
          [kind |-> "index", table |-> "report_items", name |-> "idx_report_items_resolved_at"] >> >>

ApplyAddition(db, a) ==
    CASE a.kind = "column" -> AddColumnIfMissing(db, a.table, a.name)
      [] a.kind = "index" -> CreateIndexIfNotExists(db, a.name)
      [] a.kind = "table" -> CreateTableIfNotExists(db, a.name, MaintenanceItemsCols)

\* db with the additions adds[i], i in S, applied in the order of the code
RECURSIVE PartlyApplied(_, _, _, _)
PartlyApplied(db, adds, S, i) ==
    IF i > Len(adds) THEN db
    ELSE PartlyApplied(IF i \in S THEN ApplyAddition(db, adds[i]) ELSE db, adds, S, i + 1)

\* C18: a startup that is aborted leaves a store from which the next startup
\* ends exactly where an uninterrupted startup would have ended, at version 4;
\* and from a store whose recorded version is still v < 4, with any subset of
\* the column, table and index additions of the step v -> v + 1 already
\* applied, a startup ends at version 4 with the same schema and data as from
\* the store with none of them applied.
C18_MigrationIsReentrant ==
    /\ [][calls'[1] # calls[1] /\ calls'[1].op = "init_db" =>
            /\ InitDbStore(Db', now) = InitDbStore(Db, now)
            /\ InitDbStore(Db', now).version = TargetVersion]_vars
    /\ [](LET base == InitDbPrefix(Db, 6)
              v == Max(1, base.version)
          IN  v < TargetVersion =>
                \A S \in SUBSET DOMAIN StepAdditions[v] :
                    LET partly == PartlyApplied(base, StepAdditions[v], S, 1)
                    IN  /\ partly.version = base.version
                        /\ InitDbStore(partly, now) = InitDbStore(Db, now)
                        /\ InitDbStore(partly, now).version = TargetVersion)

\* a version 1 store with a report was left by an aborted startup with the
\* tables of init_db created and no version recorded, and the startup after it
\* has migrated it: version 4, the report converted
C18_Witness ==
    /\ origin = 1
    /\ calls[1].op = "init_db" /\ calls[1].outcome = "aborted" /\ calls[1].id = 6
    /\ started
    /\ version = TargetVersion
    /\ Len(reports) = 1
    /\ reports[1].floor = Some(2) /\ reports[1].apt = Some(1)
    /\ reports[1].room_code = Some(<<"0", "2", "0", "1">>)

\* C9: in every state, a ticket whose status is 'Resolvido' has resolved_at
\* and resolved_by populated.
C9_ResolvidoIsStamped ==
    \A i \in DOMAIN general_maintenance :
        general_maintenance[i].status = "Resolvido" =>
            /\ ~IsNull(general_maintenance[i].resolved_at)
            /\ ~IsNull(general_maintenance[i].resolved_by)

\* case-insensitive comparison of names: every letter folded, the ASCII ones
\* and the others
FoldLetter == [c \in Alphabet |-> IF c = "A~" THEN "a~" ELSE FoldAscii[c]]

CaseFold(s) == [i \in DOMAIN s |-> FoldLetter[s[i]]]

\* session s ends an "Adicionar" click in this step
AddItemEndStep(s) ==
    /\ calls'[s] # calls[s]
    /\ calls'[s].op = "add_item"
    /\ calls'[s].pc = "returned"
    /\ calls'[s].outcome # "invalid"

\* C10: an "Adicionar" of a name that, normalized, equals a catalog name
\* ignoring case ends with the duplicate outcome and inserts nothing.
C10_DuplicateNameRejected ==
    [][\A s \in Sessions :
        (/\ AddItemEndStep(s)
         /\ \E i \in DOMAIN maintenance_items :
                CaseFold(maintenance_items[i].name) = CaseFold(calls'[s].text))
        => /\ calls'[s].outcome = "duplicate"
           /\ maintenance_items' = maintenance_items]_vars

\* C19: under every interleaving of the two sessions' "Adicionar" steps, no
\* two entries of the catalog have names that are equal ignoring case.
C19_NoTwoNamesEqualIgnoringCase ==
    \A i \in DOMAIN maintenance_items, j \in DOMAIN maintenance_items :
        i # j => CaseFold(maintenance_items[i].name) # CaseFold(maintenance_items[j].name)

\* C20: whenever the handling of a click on "Salvar relatório" has ended,
\* saved, rejected or with the insert failed, the session's saving flag is
\* false.
C20_SavingClearedWhenHandled ==
    \A s \in Sessions :
        calls[s].op = "insert_report" /\ calls[s].pc = "returned" => ~saving[s]

=============================================================================
